---- MODULE Spec2Model ----
(***************************************************************************)
(* A model of tidyfin: the scanner creates MediaFile objects from the      *)
(* entries of a directory, FileOrganizer.preview and                       *)
(* FileOrganizer.organize enrich them with a TMDB match and route them to  *)
(* the library, to manual review, or nowhere.                              *)
(*                                                                         *)
(* Text (titles, file names, path segments) is a sequence of one-character *)
(* strings.  A path is a tuple whose first element names a root directory  *)
(* and whose other elements are segments.  A confidence score is an        *)
(* integer number of thousandths (0.5 is 500).  Python's None is NoInt     *)
(* for an Optional[int], NoStr for an Optional[str], NoPath for an         *)
(* Optional[Path] and NoMatch for an Optional[TMDBMatch].                  *)
(***************************************************************************)
EXTENDS Integers, Sequences, FiniteSets, TLC

\* ------------------------------------------------------------------ bounds
\* Files found by one scan.
MaxFiles == 2
\* preview / organize calls made on the scanned files.
MaxCalls == 2
\* Results in one TMDB search response.
MaxResults == 1

\* ------------------------------------------------------- Python's None
NoInt == -1
NoStr == <<"None">>
NoPath == <<>>
NoMatch == [none |-> TRUE]

\* `if x:` for an Optional[int], an Optional[str]
TruthyInt(n) == n # NoInt /\ n # 0
TruthyStr(s) == s # NoStr /\ s # <<>>

\* ------------------------------------------------------------------- text
Digits == <<"0", "1", "2", "3", "4", "5", "6", "7", "8", "9">>
UpperCase == <<"A", "B", "C", "D", "E", "F", "G", "H", "I", "J", "K", "L", "M",
               "N", "O", "P", "Q", "R", "S", "T", "U", "V", "W", "X", "Y", "Z">>
LowerCase == <<"a", "b", "c", "d", "e", "f", "g", "h", "i", "j", "k", "l", "m",
               "n", "o", "p", "q", "r", "s", "t", "u", "v", "w", "x", "y", "z">>

Range(f) == {f[i] : i \in DOMAIN f}

\* str.lower() of one character, of a text
LowerChar(c) ==
    IF \E i \in 1..Len(UpperCase) : UpperCase[i] = c
    THEN LowerCase[CHOOSE i \in 1..Len(UpperCase) : UpperCase[i] = c]
    ELSE c
Lower(s) == [i \in 1..Len(s) |-> LowerChar(s[i])]

\* str(n) / f"{n}" of a natural number
RECURSIVE Str(_)
Str(n) == IF n < 10 THEN <<Digits[n + 1]>> ELSE Str(n \div 10) \o <<Digits[(n % 10) + 1]>>

\* f"{n:02d}": at least two digits, zero padded
Fmt02d_truncated(n) == <<Digits[((n \div 10) % 10) + 1], Digits[(n % 10) + 1]>>
Fmt02d(n) == IF n < 10 THEN <<"0">> \o Str(n) ELSE Str(n)

IsDigit(c) == \E i \in 1..Len(Digits) : Digits[i] = c
DigitValue(c) == (CHOOSE i \in 1..Len(Digits) : Digits[i] = c) - 1

\* int(s) of a text of digits
RECURSIVE ParseInt(_)
ParseInt(s) ==
    IF Len(s) = 0 THEN 0
    ELSE 10 * ParseInt(SubSeq(s, 1, Len(s) - 1)) + DigitValue(s[Len(s)])

\* PurePath.suffix: from the last dot of the name, unless that dot is the
\* first or the last character
LastDot(name) ==
    IF \E i \in 1..Len(name) : name[i] = "."
    THEN CHOOSE i \in 1..Len(name) :
            name[i] = "." /\ \A j \in (i + 1)..Len(name) : name[j] # "."
    ELSE 0
Suffix(name) ==
    LET i == LastDot(name)
    IN IF 1 < i /\ i < Len(name) THEN SubSeq(name, i, Len(name)) ELSE <<>>

\* ------------------------------------------------ _clean_for_filesystem
MaxSegmentLen == 200
InvalidChars == {"<", ">", ":", "\"", "/", "\\", "|", "?", "*"}
Whitespace == {" ", "\t", "\n", "\r"}

\* re.sub(r'\s+', ' ', s): of every run of whitespace the last character
\* stays, as a space
Dropped == "dropped"
CollapseWhitespace(s) ==
    SelectSeq([i \in 1..Len(s) |->
                  IF s[i] \notin Whitespace THEN s[i]
                  ELSE IF i < Len(s) /\ s[i + 1] \in Whitespace THEN Dropped
                  ELSE " "],
              LAMBDA c : c # Dropped)

\* s.strip(' .')
StripLeft(s) ==
    IF \A i \in 1..Len(s) : s[i] \in {" ", "."} THEN <<>>
    ELSE SubSeq(s, CHOOSE i \in 1..Len(s) :
                       s[i] \notin {" ", "."} /\ \A j \in 1..(i - 1) : s[j] \in {" ", "."},
                Len(s))
StripRight(s) ==
    IF \A i \in 1..Len(s) : s[i] \in {" ", "."} THEN <<>>
    ELSE SubSeq(s, 1, CHOOSE i \in 1..Len(s) :
                          s[i] \notin {" ", "."} /\ \A j \in (i + 1)..Len(s) : s[j] \in {" ", "."})

_clean_for_filesystem(name) ==
    LET removed == SelectSeq(name, LAMBDA c : c \notin InvalidChars)
        clean == StripRight(StripLeft(CollapseWhitespace(removed)))
    IN IF Len(clean) > MaxSegmentLen THEN SubSeq(clean, 1, MaxSegmentLen) ELSE clean

\* ----------------------------------------------------------------- models
\* MediaType, Confidence
MOVIE == "movie"
TV_SHOW == "tv_show"
UNKNOWN == "unknown"
HIGH == "high"
MEDIUM == "medium"
LOW == "low"

\* ParsedInfo.is_tv_show
is_tv_show(info) == info.season # NoInt /\ info.episode # NoInt

\* MediaFile.filename, MediaFile.extension, MediaFile.get_media_type
filename(mf) == mf.source_path[Len(mf.source_path)]
extension(mf) == Lower(Suffix(filename(mf)))
get_media_type(mf) ==
    IF mf.tmdb_match # NoMatch THEN mf.tmdb_match.media_type
    ELSE mf.parsed_info.media_type

\* ----------------------------------------------------------------- parser
\* ParsedInfo(title=..., year=..., season=..., episode=..., media_type=...)
ParsedInfo(title, year, season, episode, media_type) ==
    [title |-> title, year |-> year, season |-> season, episode |-> episode,
     episode_title |-> NoStr, media_type |-> media_type]

\* The character at a position of a text, "" outside it
At(s, i) == IF i \in 1..Len(s) THEN s[i] ELSE ""

\* How many of the characters from position i are digits, at most max:
\* what the greedy \d{1,max} takes
DigitRun(s, i, max) ==
    CHOOSE n \in 0..max :
       /\ \A k \in 0..(n - 1) : IsDigit(At(s, i + k))
       /\ n = max \/ ~IsDigit(At(s, i + n))

\* The word, given in lower case, stands at position i (re.IGNORECASE)
WordAt(s, i, word) == \A k \in 1..Len(word) : LowerChar(At(s, i + k - 1)) = word[k]

\* [.\s_-] and [\s._-] of the TV patterns
IsTvSeparator(c) == c \in {".", "_", "-"} \union Whitespace

NoRegexMatch == [start |-> 0]
RegexMatch(start, end, first, second) ==
    [start |-> start, end |-> end, groups |-> <<first, second>>]

\* TV_PATTERNS[0] at position p: [.\s_-]S(\d{1,2})[\s._-]?E(\d{1,3})
\* (?:[\s._-]E(\d{1,3}))?; end is the position after the match
SxxEyyAt(s, p) ==
    LET ds == DigitRun(s, p + 2, 2)
        q == p + 2 + ds
        e == IF IsTvSeparator(At(s, q)) /\ LowerChar(At(s, q + 1)) = "e" THEN q + 1 ELSE q
        de == DigitRun(s, e + 1, 3)
        end1 == e + 1 + de
        d2 == DigitRun(s, end1 + 2, 3)
        end == IF IsTvSeparator(At(s, end1)) /\ LowerChar(At(s, end1 + 1)) = "e" /\ d2 >= 1
               THEN end1 + 2 + d2 ELSE end1
    IN IF /\ IsTvSeparator(At(s, p))
          /\ LowerChar(At(s, p + 1)) = "s"
          /\ ds >= 1
          /\ LowerChar(At(s, e)) = "e"
          /\ de >= 1
       THEN RegexMatch(p, end, SubSeq(s, p + 2, q - 1), SubSeq(s, e + 1, end1 - 1))
       ELSE NoRegexMatch

\* TV_PATTERNS[1]: [.\s_-](\d{1,2})x(\d{1,3})
NxMAt(s, p) ==
    LET ds == DigitRun(s, p + 1, 2)
        q == p + 1 + ds
        de == DigitRun(s, q + 1, 3)
    IN IF IsTvSeparator(At(s, p)) /\ ds >= 1 /\ LowerChar(At(s, q)) = "x" /\ de >= 1
       THEN RegexMatch(p, q + 1 + de, SubSeq(s, p + 1, q - 1), SubSeq(s, q + 1, q + de))
       ELSE NoRegexMatch

\* TV_PATTERNS[2]: [.\s_-]Season[\s._-]?(\d{1,2})[\s._-]?Episode[\s._-]?(\d{1,3})
SkipSeparator(s, i) == IF IsTvSeparator(At(s, i)) THEN i + 1 ELSE i
SeasonEpisodeAt(s, p) ==
    LET a == SkipSeparator(s, p + 7)
        ds == DigitRun(s, a, 2)
        w == SkipSeparator(s, a + ds)
        b == SkipSeparator(s, w + 7)
        de == DigitRun(s, b, 3)
    IN IF /\ IsTvSeparator(At(s, p))
          /\ WordAt(s, p + 1, <<"s", "e", "a", "s", "o", "n">>)
          /\ ds >= 1
          /\ WordAt(s, w, <<"e", "p", "i", "s", "o", "d", "e">>)
          /\ de >= 1
       THEN RegexMatch(p, b + de, SubSeq(s, a, a + ds - 1), SubSeq(s, b, b + de - 1))
       ELSE NoRegexMatch

\* TV_PATTERNS[3]: [.\s_-]S(\d{1,2})\.E(\d{1,3})
SxxDotEyyAt(s, p) ==
    LET ds == DigitRun(s, p + 2, 2)
        q == p + 2 + ds
        de == DigitRun(s, q + 2, 3)
    IN IF /\ IsTvSeparator(At(s, p))
          /\ LowerChar(At(s, p + 1)) = "s"
          /\ ds >= 1
          /\ At(s, q) = "."
          /\ LowerChar(At(s, q + 1)) = "e"
          /\ de >= 1
       THEN RegexMatch(p, q + 2 + de, SubSeq(s, p + 2, q - 1), SubSeq(s, q + 2, q + 1 + de))
       ELSE NoRegexMatch

\* tv_regexes[k] at position p
TvPatternAt(k, s, p) ==
    CASE k = 1 -> SxxEyyAt(s, p)
      [] k = 2 -> NxMAt(s, p)
      [] k = 3 -> SeasonEpisodeAt(s, p)
      [] k = 4 -> SxxDotEyyAt(s, p)
TV_PATTERNS == 1..4

\* regex.search(name): the leftmost match
Min(S) == CHOOSE x \in S : \A y \in S : x <= y
LeftmostTv(k, s, starts) ==
    IF starts = {} THEN NoRegexMatch ELSE TvPatternAt(k, s, Min(starts))
TvSearch(k, s) ==
    LeftmostTv(k, s, {p \in 1..Len(s) : TvPatternAt(k, s, p) # NoRegexMatch})

\* YEAR_PATTERN at position p: [\.\s_\(\[-]((?:19|20)\d{2})[\.\s_\)\]-]
YearAt(s, p) ==
    /\ At(s, p) \in {".", "_", "(", "[", "-"} \union Whitespace
    /\ <<At(s, p + 1), At(s, p + 2)>> \in {<<"1", "9">>, <<"2", "0">>}
    /\ IsDigit(At(s, p + 3))
    /\ IsDigit(At(s, p + 4))
    /\ At(s, p + 5) \in {".", "_", ")", "]", "-"} \union Whitespace

\* year_regex.search(text): the start of the leftmost match, 0 for None
YearSearch(s) ==
    IF \E p \in 1..Len(s) : YearAt(s, p)
    THEN CHOOSE p \in 1..Len(s) : YearAt(s, p) /\ \A q \in 1..(p - 1) : ~YearAt(s, q)
    ELSE 0

\* FilenameParser._extract_year
FirstYear == 1900
LastYear == 2099
parser_extract_year(text) ==
    LET p == YearSearch(text)
        year == ParseInt(SubSeq(text, p + 1, p + 4))
    IN IF p > 0 /\ FirstYear <= year /\ year <= LastYear THEN year ELSE NoInt

\* CLEANUP_PATTERNS.  Each tells where a match that starts at position i
\* ends (the position after it), 0 when none starts there.
\* \[.*?\]
BracketEnd(s, i) ==
    IF At(s, i) = "[" /\ \E j \in (i + 1)..Len(s) : s[j] = "]"
    THEN 1 + CHOOSE j \in (i + 1)..Len(s) :
                s[j] = "]" /\ \A k \in (i + 1)..(j - 1) : s[k] # "]"
    ELSE 0
\* \((?!(?:19|20)\d{2})\D*\)
ParenClosings(s, i) ==
    {j \in (i + 1)..Len(s) : s[j] = ")" /\ \A k \in (i + 1)..(j - 1) : ~IsDigit(s[k])}
ParenEnd(s, i) ==
    IF At(s, i) = "(" /\ ParenClosings(s, i) # {}
    THEN 1 + CHOOSE j \in ParenClosings(s, i) : \A k \in ParenClosings(s, i) : k <= j
    ELSE 0
\* \b(word|word|...)\b, the words of lines 23 to 29
CleanupTokens ==
    << << <<"7", "2", "0", "p">>,
          <<"1", "0", "8", "0", "p">>,
          <<"2", "1", "6", "0", "p">>,
          <<"4", "k">>,
          <<"u", "h", "d">> >>,
       << <<"b", "l", "u", "r", "a", "y">>,
          <<"b", "d", "r", "i", "p">>,
          <<"b", "r", "r", "i", "p">>,
          <<"d", "v", "d", "r", "i", "p">>,
          <<"w", "e", "b", "r", "i", "p">>,
          <<"w", "e", "b", "-", "d", "l">>,
          <<"h", "d", "t", "v">>,
          <<"h", "d", "r", "i", "p">> >>,
       << <<"x", "2", "6", "4">>,
          <<"x", "2", "6", "5">>,
          <<"h", "2", "6", "4">>,
          <<"h", "2", "6", "5">>,
          <<"h", "e", "v", "c">>,
          <<"a", "v", "c">>,
          <<"x", "v", "i", "d">>,
          <<"d", "i", "v", "x">> >>,
       << <<"a", "a", "c">>,
          <<"a", "c", "3">>,
          <<"d", "t", "s">>,
          <<"t", "r", "u", "e", "h", "d">>,
          <<"a", "t", "m", "o", "s">>,
          <<"f", "l", "a", "c">>,
          <<"m", "p", "3">> >>,
       << <<"r", "e", "m", "u", "x">>,
          <<"r", "e", "p", "a", "c", "k">>,
          <<"p", "r", "o", "p", "e", "r">>,
          <<"e", "x", "t", "e", "n", "d", "e", "d">>,
          <<"u", "n", "r", "a", "t", "e", "d">>,
          <<"d", "i", "r", "e", "c", "t", "o", "r", "s", ".", "c", "u", "t">> >>,
       << <<"y", "t", "s">>,
          <<"y", "i", "f", "y">>,
          <<"r", "a", "r", "b", "g">>,
          <<"e", "t", "t", "v">>,
          <<"e", "z", "t", "v">>,
          <<"s", "p", "a", "r", "k", "s">>,
          <<"g", "e", "c", "k", "o", "s">>,
          <<"n", "t", "g">> >>,
       << <<"m", "u", "l", "t", "i">>,
          <<"d", "u", "a", "l">>,
          <<"c", "o", "m", "p", "l", "e", "t", "e">> >> >>
IsWordChar(c) == c # "" /\ (IsDigit(c) \/ c = "_" \/ LowerChar(c) \in Range(LowerCase))
TokenAt(s, i, word) ==
    /\ ~IsWordChar(At(s, i - 1))
    /\ WordAt(s, i, word)
    /\ ~IsWordChar(At(s, i + Len(word)))
TokenEnd(words, s, i) ==
    IF \E n \in 1..Len(words) : TokenAt(s, i, words[n])
    THEN i + Len(words[CHOOSE n \in 1..Len(words) :
                          /\ TokenAt(s, i, words[n])
                          /\ \A m \in 1..(n - 1) : ~TokenAt(s, i, words[m])])
    ELSE 0
\* -\w+$
ReleaseGroupEnd(s, i) ==
    IF /\ At(s, i) = "-"
       /\ i < Len(s)
       /\ \A k \in (i + 1)..Len(s) : IsWordChar(s[k])
    THEN Len(s) + 1 ELSE 0

\* cleanup_regexes[k]
CleanupEnd(k, s, i) ==
    CASE k = 1 -> BracketEnd(s, i)
      [] k = 2 -> ParenEnd(s, i)
      [] k \in 3..9 -> TokenEnd(CleanupTokens[k - 2], s, i)
      [] k = 10 -> ReleaseGroupEnd(s, i)
CLEANUP_PATTERNS == 10

\* regex.sub(' ', title): each match, left to right, becomes one space
RECURSIVE CleanupSub(_, _, _)
CleanupSub(k, s, i) ==
    IF i > Len(s) THEN <<>>
    ELSE IF CleanupEnd(k, s, i) > 0
    THEN <<" ">> \o CleanupSub(k, s, CleanupEnd(k, s, i))
    ELSE <<s[i]>> \o CleanupSub(k, s, i + 1)
RECURSIVE ApplyCleanup(_, _)
ApplyCleanup(k, s) ==
    IF k > CLEANUP_PATTERNS THEN s ELSE ApplyCleanup(k + 1, CleanupSub(k, s, 1))

\* re.sub(r'[._-]+', ' ', title)
RECURSIVE CollapseSeparators(_)
CollapseSeparators(s) ==
    IF Len(s) = 0 THEN <<>>
    ELSE IF Head(s) \in {".", "_", "-"}
         THEN IF Len(s) > 1 /\ s[2] \in {".", "_", "-"}
              THEN CollapseSeparators(Tail(s))
              ELSE <<" ">> \o CollapseSeparators(Tail(s))
         ELSE <<Head(s)>> \o CollapseSeparators(Tail(s))

\* str.strip()
RECURSIVE Strip(_)
Strip(s) ==
    IF Len(s) > 0 /\ Head(s) \in Whitespace THEN Strip(Tail(s))
    ELSE IF Len(s) > 0 /\ s[Len(s)] \in Whitespace THEN Strip(SubSeq(s, 1, Len(s) - 1))
    ELSE s

\* str.isupper, str.islower, str.title
IsUpper(c) == c \in Range(UpperCase)
IsLower(c) == c \in Range(LowerCase)
UpperChar(c) ==
    IF IsLower(c) THEN UpperCase[CHOOSE i \in 1..Len(LowerCase) : LowerCase[i] = c] ELSE c
isupper(s) == (\E i \in 1..Len(s) : IsUpper(s[i])) /\ ~\E i \in 1..Len(s) : IsLower(s[i])
islower(s) == (\E i \in 1..Len(s) : IsLower(s[i])) /\ ~\E i \in 1..Len(s) : IsUpper(s[i])
Title(s) ==
    [i \in 1..Len(s) |->
        IF IsUpper(At(s, i - 1)) \/ IsLower(At(s, i - 1))
        THEN LowerChar(s[i]) ELSE UpperChar(s[i])]

\* FilenameParser._clean_title
Cased(title) == IF isupper(title) \/ islower(title) THEN Title(title) ELSE title
_clean_title(title) ==
    Cased(Strip(CollapseWhitespace(CollapseSeparators(ApplyCleanup(1, title)))))

\* Path(filename).stem
Stem(name) == SubSeq(name, 1, Len(name) - Len(Suffix(name)))

\* FilenameParser._parse_tv_show: the first pattern of the list that is
\* found in the name decides; None when none is found
NoParsedInfo == [none |-> TRUE]
EpisodeTitle(after_pattern) ==
    IF Len(after_pattern) > 0 /\ Len(_clean_title(after_pattern)) >= 2
    THEN _clean_title(after_pattern) ELSE NoStr
TvInfo(name, match) ==
    [ParsedInfo(_clean_title(SubSeq(name, 1, match.start - 1)),
                parser_extract_year(SubSeq(name, 1, match.start - 1)),
                ParseInt(match.groups[1]),
                ParseInt(match.groups[2]),
                TV_SHOW)
       EXCEPT !.episode_title = EpisodeTitle(SubSeq(name, match.end, Len(name)))]
FirstTvPattern_leftmost(name, found) ==
    IF found = {} THEN NoParsedInfo
    ELSE TvInfo(name, TvSearch(CHOOSE k \in found :
                                   \A j \in found : TvSearch(k, name).start <= TvSearch(j, name).start,
                               name))
FirstTvPattern(name, found) ==
    IF found = {} THEN NoParsedInfo ELSE TvInfo(name, TvSearch(Min(found), name))
_parse_tv_show(name) ==
    FirstTvPattern(name, {k \in TV_PATTERNS : TvSearch(k, name) # NoRegexMatch})

\* FilenameParser._parse_movie
MovieInfo_always_movie(name, year) ==
    ParsedInfo(_clean_title(IF TruthyInt(year) /\ YearSearch(name) > 0
                            THEN SubSeq(name, 1, YearSearch(name) - 1)
                            ELSE name),
               year, NoInt, NoInt, MOVIE)
MovieInfo(name, year) ==
    ParsedInfo(_clean_title(IF TruthyInt(year) /\ YearSearch(name) > 0
                            THEN SubSeq(name, 1, YearSearch(name) - 1)
                            ELSE name),
               year, NoInt, NoInt,
               IF TruthyInt(year) THEN MOVIE ELSE UNKNOWN)
_parse_movie(name) == MovieInfo(name, parser_extract_year(name))

\* FilenameParser.parse
OrMovie(tv_info, name) == IF tv_info # NoParsedInfo THEN tv_info ELSE _parse_movie(name)
parse(file_name) == OrMovie(_parse_tv_show(Stem(file_name)), Stem(file_name))

\* ---------------------------------------------------------------- scanner
HighScore == 850
MediumScore == 600
LowScore == 300

_initial_confidence_any_title(parsed_info) ==
    IF is_tv_show(parsed_info) /\ Len(parsed_info.title) > 0 THEN HIGH
    ELSE IF parsed_info.media_type = MOVIE /\ TruthyInt(parsed_info.year) THEN HIGH
    ELSE IF Len(parsed_info.title) >= 1 THEN MEDIUM
    ELSE LOW
_initial_confidence(parsed_info) ==
    IF is_tv_show(parsed_info) /\ Len(parsed_info.title) > 0 THEN HIGH
    ELSE IF parsed_info.media_type = MOVIE /\ TruthyInt(parsed_info.year) THEN HIGH
    ELSE IF Len(parsed_info.title) >= 2 THEN MEDIUM
    ELSE LOW

_confidence_to_score(confidence) ==
    CASE confidence = HIGH -> HighScore
      [] confidence = MEDIUM -> MediumScore
      [] confidence = LOW -> LowScore

\* FileScanner._create_media_file; `writes` counts the assignments to the
\* confidence fields of the object, the construction being the first.
_create_media_file(path, parsed_info) ==
    LET confidence == _initial_confidence(parsed_info)
    IN [source_path |-> path,
        parsed_info |-> parsed_info,
        tmdb_match |-> NoMatch,
        confidence |-> confidence,
        confidence_score |-> _confidence_to_score(confidence),
        writes |-> 1]

\* ------------------------------------------------------------ tmdb_client
\* difflib.SequenceMatcher(None, a, b): the length of the common run of a
\* from i and b from j, inside a[..ahi] and b[..bhi]
RECURSIVE RunLen(_, _, _, _, _, _)
RunLen(a, i, ahi, b, j, bhi) ==
    IF i <= ahi /\ j <= bhi /\ a[i] = b[j]
    THEN 1 + RunLen(a, i + 1, ahi, b, j + 1, bhi)
    ELSE 0

\* find_longest_match: the longest block, the earliest in a, then in b
LongestMatch(a, alo, ahi, b, blo, bhi) ==
    LET cand == (alo..ahi) \X (blo..bhi)
        len(c) == RunLen(a, c[1], ahi, b, c[2], bhi)
        best == CHOOSE c \in cand :
                  \A d \in cand :
                     \/ len(c) > len(d)
                     \/ len(c) = len(d) /\ c[1] < d[1]
                     \/ len(c) = len(d) /\ c[1] = d[1] /\ c[2] <= d[2]
    IN <<best[1], best[2], len(best)>>

\* get_matching_blocks: the total size of the matching blocks
RECURSIVE MatchingChars(_, _, _, _, _, _)
MatchingChars(a, alo, ahi, b, blo, bhi) ==
    IF alo > ahi \/ blo > bhi THEN 0
    ELSE LET m == LongestMatch(a, alo, ahi, b, blo, bhi)
         IN IF m[3] = 0 THEN 0
            ELSE m[3]
                 + MatchingChars(a, alo, m[1] - 1, b, blo, m[2] - 1)
                 + MatchingChars(a, m[1] + m[3], ahi, b, m[2] + m[3], bhi)

Clamp(x) == IF x < 0 THEN 0 ELSE IF x > 1000 THEN 1000 ELSE x
Abs(x) == IF x < 0 THEN -x ELSE x

\* title_sim * 0.8 in thousandths, rounded down; ratio() is 2*M/T, and 1.0
\* for two empty texts
TitleWeight == 800
ExactYearBonus == 200
NearYearBonus == 100
NoYearPenalty == 100

\* _calculate_confidence as it would be without its `elif not query_year`
_calculate_confidence_no_penalty(query_title, result_title, query_year, result_year) ==
    LET a == Lower(query_title)
        b == Lower(result_title)
        total == Len(a) + Len(b)
        title_part == IF total = 0 THEN TitleWeight
                      ELSE (2 * TitleWeight * MatchingChars(a, 1, Len(a), b, 1, Len(b)))
                             \div total
        year_score == IF TruthyInt(query_year) /\ TruthyInt(result_year)
                      THEN IF query_year = result_year THEN ExactYearBonus
                           ELSE IF Abs(query_year - result_year) = 1 THEN NearYearBonus
                           ELSE 0
                      ELSE 0
    IN Clamp(title_part + year_score)
_calculate_confidence(query_title, result_title, query_year, result_year) ==
    LET a == Lower(query_title)
        b == Lower(result_title)
        total == Len(a) + Len(b)
        title_part == IF total = 0 THEN TitleWeight
                      ELSE (2 * TitleWeight * MatchingChars(a, 1, Len(a), b, 1, Len(b)))
                             \div total
        year_score == IF TruthyInt(query_year) /\ TruthyInt(result_year)
                      THEN IF query_year = result_year THEN ExactYearBonus
                           ELSE IF Abs(query_year - result_year) = 1 THEN NearYearBonus
                           ELSE 0
                      ELSE IF ~TruthyInt(query_year) THEN -NoYearPenalty
                      ELSE 0
    IN Clamp(title_part + year_score)

\* TMDBClient._extract_year of a date text such as 1999-05-20
_extract_year(date_str) ==
    IF Len(date_str) >= 4 /\ \A i \in 1..4 : IsDigit(date_str[i])
    THEN ParseInt(SubSeq(date_str, 1, 4))
    ELSE NoInt

\* TMDBMatch(...) as search_movie / search_tv build it, with the score that
\* the confidence_score setter stores
TMDBMatch(result, media_type, title, year) ==
    LET result_year == _extract_year(result.date)
    IN [tmdb_id |-> result.id,
        title |-> result.title,
        year |-> result_year,
        media_type |-> media_type,
        season_number |-> NoInt,
        episode_number |-> NoInt,
        episode_title |-> NoStr,
        confidence_score |->
            Clamp(_calculate_confidence(title, result.title, year, result_year))]

\* matches.sort(key=lambda m: m.confidence_score, reverse=True): stable
RECURSIVE InsertByConfidence(_, _)
InsertByConfidence(sorted, m) ==
    IF Len(sorted) = 0 THEN <<m>>
    ELSE IF Head(sorted).confidence_score >= m.confidence_score
         THEN <<Head(sorted)>> \o InsertByConfidence(Tail(sorted), m)
         ELSE <<m>> \o sorted
RECURSIVE SortByConfidence(_)
SortByConfidence(matches) ==
    IF Len(matches) = 0 THEN <<>>
    ELSE InsertByConfidence(SortByConfidence(SubSeq(matches, 1, Len(matches) - 1)),
                            matches[Len(matches)])

\* The first five results of a response; _get answers None for a request
\* that failed, and the payload may lack "results".
TopResults == 5
ResultsOf(resp) ==
    IF resp.kind = "ok"
    THEN SubSeq(resp.results, 1, IF Len(resp.results) < TopResults
                                 THEN Len(resp.results) ELSE TopResults)
    ELSE <<>>

\* result["id"] of a result without that key raises KeyError
NoException == ""
SearchRaises(resp) ==
    IF \E i \in 1..Len(ResultsOf(resp)) : ResultsOf(resp)[i].id = NoInt
    THEN "'id'" ELSE NoException

search_movie(title, year, resp) ==
    LET results == ResultsOf(resp)
    IN IF SearchRaises(resp) # NoException
       THEN [raised |-> SearchRaises(resp), matches |-> <<>>]
       ELSE [raised |-> NoException,
             matches |-> SortByConfidence(
                 [i \in 1..Len(results) |-> TMDBMatch(results[i], MOVIE, title, year)])]

search_tv(title, year, resp) ==
    LET results == ResultsOf(resp)
    IN IF SearchRaises(resp) # NoException
       THEN [raised |-> SearchRaises(resp), matches |-> <<>>]
       ELSE [raised |-> NoException,
             matches |-> SortByConfidence(
                 [i \in 1..Len(results) |-> TMDBMatch(results[i], TV_SHOW, title, year)])]

\* `if not matches: return None`, else matches[0]; found is what the search
\* returned or raised
BestMatch(found) ==
    IF found.raised # NoException THEN [raised |-> found.raised, match |-> NoMatch]
    ELSE IF Len(found.matches) = 0 THEN [raised |-> NoException, match |-> NoMatch]
    ELSE [raised |-> NoException, match |-> found.matches[1]]

_identify_movie(info, resp) == BestMatch(search_movie(info.title, info.year, resp))

\* get_tv_episode answers None for a request that failed; an empty payload
\* is falsy as well, and a payload may lack "name"
WithEpisode(best, info, ep) ==
    IF best.match # NoMatch /\ TruthyInt(info.season) /\ TruthyInt(info.episode)
       /\ ep.kind = "ok"
    THEN [best EXCEPT !.match.season_number = info.season,
                      !.match.episode_number = info.episode,
                      !.match.episode_title = IF ep.name = NoStr THEN <<>> ELSE ep.name]
    ELSE best

_identify_tv_show(info, resp, ep) ==
    WithEpisode(BestMatch(search_tv(info.title, info.year, resp)), info, ep)

identify_media(parsed_info, resp, ep) ==
    IF is_tv_show(parsed_info)
    THEN _identify_tv_show(parsed_info, resp, ep)
    ELSE _identify_movie(parsed_info, resp)

\* -------------------------------------------------------------- organizer
MIN_CONFIDENCE_THRESHOLD == 500
HighThreshold == 800

_score_to_confidence(score) ==
    IF score >= HighThreshold THEN HIGH
    ELSE IF score >= MIN_CONFIDENCE_THRESHOLD THEN MEDIUM
    ELSE LOW

\* dir / a / b of pathlib: an empty segment leaves the path as it is
PathJoin(dir, segments) == dir \o SelectSeq(segments, LAMBDA segment : segment # <<>>)

\* The scanner gives every MediaFile a parsed_info, so the branches of the
\* path builders for a file without one are not reached.
_generate_movie_path_parsed_year(media_file, org) ==
    LET title == IF media_file.tmdb_match # NoMatch
                 THEN media_file.tmdb_match.title ELSE media_file.parsed_info.title
        year == IF media_file.tmdb_match # NoMatch /\ TruthyInt(media_file.tmdb_match.year)
                THEN media_file.tmdb_match.year ELSE media_file.parsed_info.year
        clean_title == _clean_for_filesystem(title)
        folder_name == IF TruthyInt(year)
                       THEN clean_title \o <<" ", "(">> \o Str(year) \o <<")">>
                       ELSE clean_title
    IN [raised |-> NoException,
        path |-> PathJoin(org.movies_dir,
                          <<folder_name, folder_name \o extension(media_file)>>)]
_generate_movie_path(media_file, org) ==
    LET title == IF media_file.tmdb_match # NoMatch
                 THEN media_file.tmdb_match.title ELSE media_file.parsed_info.title
        year == IF media_file.tmdb_match # NoMatch
                THEN media_file.tmdb_match.year ELSE media_file.parsed_info.year
        clean_title == _clean_for_filesystem(title)
        folder_name == IF TruthyInt(year)
                       THEN clean_title \o <<" ", "(">> \o Str(year) \o <<")">>
                       ELSE clean_title
    IN [raised |-> NoException,
        path |-> PathJoin(org.movies_dir,
                          <<folder_name, folder_name \o extension(media_file)>>)]

_generate_show_path(media_file, org) ==
    LET m == media_file.tmdb_match
        p == media_file.parsed_info
        title == IF m # NoMatch THEN m.title ELSE p.title
        season == IF m # NoMatch THEN m.season_number ELSE p.season
        episode == IF m # NoMatch THEN m.episode_number ELSE p.episode
        episode_title == IF m # NoMatch THEN m.episode_title ELSE p.episode_title
        clean_title == _clean_for_filesystem(title)
        tag == clean_title \o <<" ", "-", " ", "S">> \o Fmt02d(season)
                 \o <<"E">> \o Fmt02d(episode)
        name == IF TruthyStr(episode_title)
                THEN tag \o <<" ", "-", " ">> \o _clean_for_filesystem(episode_title)
                         \o extension(media_file)
                ELSE tag \o extension(media_file)
    IN IF season = NoInt \/ episode = NoInt
       THEN [raised |-> "Missing season/episode information", path |-> NoPath]
       ELSE [raised |-> NoException,
             path |-> PathJoin(org.shows_dir,
                               <<clean_title,
                                 <<"S", "e", "a", "s", "o", "n", " ">> \o Fmt02d(season),
                                 name>>)]

_generate_destination(media_file, org) ==
    LET media_type == get_media_type(media_file)
    IN IF media_type = MOVIE THEN _generate_movie_path(media_file, org)
       ELSE IF media_type = TV_SHOW THEN _generate_show_path(media_file, org)
       ELSE [raised |-> NoException, path |-> NoPath]

\* ----------------------------------------------------------- file system
\* fs.files: the paths of the files that exist; fs.dirs: the directories the
\* program created.  mv is what the file system does with the next request:
\* "ok" or "move_error" (shutil.move raises, after mkdir made the directory).
MoveOutcomes == {"ok", "move_error"}

Parent(path) == SubSeq(path, 1, Len(path) - 1)
\* Path.mkdir(parents=True, exist_ok=True)
Mkdir(fs, dir) ==
    [fs EXCEPT !.dirs = @ \union {SubSeq(dir, 1, n) : n \in 1..Len(dir)}]
\* shutil.move(src, dst): raises when src does not exist
Move(fs, src, dst) == [fs EXCEPT !.files = (@ \ {src}) \union {dst}]

\* dest_path.parent.mkdir(...) then shutil.move(...), of a call that is not
\* a dry run
MkdirAndMove(fs, src, dst, mv) ==
    IF mv = "move_error" \/ src \notin fs.files
    THEN [raised |-> "move: failed", fs |-> Mkdir(fs, Parent(dst))]
    ELSE [raised |-> NoException, fs |-> Move(Mkdir(fs, Parent(dst)), src, dst)]

OrganizeResult(media_file, success, destination_path, action, error_message, org) ==
    [success |-> success,
     source_path |-> media_file.source_path,
     destination_path |-> destination_path,
     action |-> action,
     error_message |-> error_message,
     dry_run |-> org.dry_run]

\* _move_file as it would be if it passed over a failure of the move
_move_file_swallowing(media_file, dest_path, org, fs, mv) ==
    LET io == IF ~org.dry_run
              THEN MkdirAndMove(fs, media_file.source_path, dest_path, mv)
              ELSE [raised |-> NoException, fs |-> fs]
    IN [raised |-> NoException,
        fs |-> io.fs,
        result |-> OrganizeResult(media_file, TRUE, dest_path, "moved", NoException, org)]
\* _move_file as it would be without its `if not self.dry_run`
_move_file_unguarded(media_file, dest_path, org, fs, mv) ==
    LET io == MkdirAndMove(fs, media_file.source_path, dest_path, mv)
    IN [raised |-> io.raised,
        fs |-> io.fs,
        result |-> OrganizeResult(media_file, TRUE, dest_path, "moved", NoException, org)]
_move_file(media_file, dest_path, org, fs, mv) ==
    LET io == IF ~org.dry_run
              THEN MkdirAndMove(fs, media_file.source_path, dest_path, mv)
              ELSE [raised |-> NoException, fs |-> fs]
    IN [raised |-> io.raised,
        fs |-> io.fs,
        result |-> OrganizeResult(media_file, TRUE, dest_path, "moved", NoException, org)]

_send_to_review(media_file, org, fs, mv) ==
    IF org.review_dir = NoPath
    THEN [raised |-> NoException,
          fs |-> fs,
          result |-> OrganizeResult(media_file, FALSE, NoPath, "skipped",
                        "Low confidence and no review directory configured", org)]
    ELSE LET dest_path == org.review_dir \o <<filename(media_file)>>
             io == IF ~org.dry_run
                   THEN MkdirAndMove(fs, media_file.source_path, dest_path, mv)
                   ELSE [raised |-> NoException, fs |-> fs]
         IN [raised |-> io.raised,
             fs |-> io.fs,
             result |-> OrganizeResult(media_file, TRUE, dest_path, "manual_review",
                                       NoException, org)]

\* The enrichment of organize_file (lines 86-91) and of preview (272-276)
EnrichOrganize(media_file, match) ==
    [media_file EXCEPT !.tmdb_match = match,
                       !.confidence_score = match.confidence_score,
                       !.confidence = _score_to_confidence(match.confidence_score),
                       !.writes = @ + 1]
EnrichPreview(media_file, match) ==
    [media_file EXCEPT !.tmdb_match = match,
                       !.confidence_score = match.confidence_score,
                       !.writes = @ + 1]

\* What organize_file and preview get from the lookup: identify_media's
\* answer, or no match when the lookup is not made
Identify(parsed_info, asked, resp, ep) ==
    IF asked THEN identify_media(parsed_info, resp, ep)
    ELSE [raised |-> NoException, match |-> NoMatch]

\* The body of the try block of organize_file, ident being what the lookup
\* gave: raised names the exception that leaves the block, media_file is
\* the object as the block left it.
\* Lines 93-103, dest being what _generate_destination gives when called
Route(media_file, dest, org, fs, mv) ==
    IF media_file.confidence_score < MIN_CONFIDENCE_THRESHOLD
    THEN _send_to_review(media_file, org, fs, mv)
    ELSE IF dest.raised # NoException
    THEN [raised |-> dest.raised, fs |-> fs, result |-> <<>>]
    ELSE IF dest.path = NoPath
    THEN _send_to_review(media_file, org, fs, mv)
    ELSE _move_file(media_file, dest.path, org, fs, mv)

\* Lines 93-103 on the file as the lookup left it
WithFile(routed, media_file) ==
    [raised |-> routed.raised, fs |-> routed.fs, result |-> routed.result,
     media_file |-> media_file]
RouteEnriched(media_file, org, fs, mv) ==
    WithFile(Route(media_file, _generate_destination(media_file, org), org, fs, mv),
             media_file)

OrganizeFileBody(media_file, ident, org, fs, mv) ==
    IF ident.raised # NoException
    THEN [raised |-> ident.raised, fs |-> fs, result |-> <<>>, media_file |-> media_file]
    ELSE IF ident.match # NoMatch
    THEN RouteEnriched(EnrichOrganize(media_file, ident.match), org, fs, mv)
    ELSE RouteEnriched(media_file, org, fs, mv)

\* organize_file: `except Exception` turns whatever the body raises into an
\* "error" result, so no exception escapes to the caller.  Before it,
\* organize_file as it would be without the except clause: what the body
\* raises escapes and there is no result.
Uncaught(body) ==
    [escaped |-> body.raised, media_file |-> body.media_file, fs |-> body.fs,
     result |-> body.result]
\* Lines 105-113: the except clause, body being how the try block ended
ExceptException(body, org) ==
    [escaped |-> NoException,
     media_file |-> body.media_file,
     fs |-> body.fs,
     result |-> IF body.raised # NoException
                THEN OrganizeResult(body.media_file, FALSE, NoPath, "error",
                                    body.raised, org)
                ELSE body.result]
organize_file_uncaught(media_file, ident, org, fs, mv) ==
    Uncaught(OrganizeFileBody(media_file, ident, org, fs, mv))
organize_file(media_file, ident, org, fs, mv) ==
    ExceptException(OrganizeFileBody(media_file, ident, org, fs, mv), org)

\* One iteration of the loop of preview: the lookup is outside the try
\* block, so what it raises escapes; a destination that cannot be built
\* becomes the review directory, or None.
PreviewDestination(dest, org) ==
    IF dest.raised # NoException THEN org.review_dir ELSE dest.path

PreviewEnriched(media_file, raised, org) ==
    [escaped |-> raised,
     media_file |-> media_file,
     dest |-> PreviewDestination(_generate_destination(media_file, org), org)]

PreviewFile(media_file, ident, org) ==
    IF ident.raised = NoException /\ ident.match # NoMatch
    THEN PreviewEnriched(EnrichPreview(media_file, ident.match), ident.raised, org)
    ELSE PreviewEnriched(media_file, ident.raised, org)

\* OrganizeSummary() and OrganizeSummary.add_result; media_file is the
\* object result.media_file refers to
OrganizeSummary ==
    [total_files |-> 0, movies_organized |-> 0, shows_organized |-> 0,
     manual_review |-> 0, skipped |-> 0, errors |-> 0, results |-> <<>>]

add_result_by_parsed_kind(s, result, media_file) ==
    LET counted == [s EXCEPT !.results = Append(@, result), !.total_files = @ + 1]
    IN IF result.action = "moved"
       THEN IF media_file.parsed_info.media_type = MOVIE
            THEN [counted EXCEPT !.movies_organized = @ + 1]
            ELSE [counted EXCEPT !.shows_organized = @ + 1]
       ELSE IF result.action = "manual_review"
       THEN [counted EXCEPT !.manual_review = @ + 1]
       ELSE IF result.action = "skipped"
       THEN [counted EXCEPT !.skipped = @ + 1]
       ELSE IF result.action = "error"
       THEN [counted EXCEPT !.errors = @ + 1]
       ELSE counted
add_result(s, result, media_file) ==
    LET counted == [s EXCEPT !.results = Append(@, result), !.total_files = @ + 1]
    IN IF result.action = "moved"
       THEN IF get_media_type(media_file) = MOVIE
            THEN [counted EXCEPT !.movies_organized = @ + 1]
            ELSE [counted EXCEPT !.shows_organized = @ + 1]
       ELSE IF result.action = "manual_review"
       THEN [counted EXCEPT !.manual_review = @ + 1]
       ELSE IF result.action = "skipped"
       THEN [counted EXCEPT !.skipped = @ + 1]
       ELSE IF result.action = "error"
       THEN [counted EXCEPT !.errors = @ + 1]
       ELSE counted

\* ----------------------------------------------------------------- inputs
\* The entries of a scanned directory: a file name and the ParsedInfo that
\* FilenameParser.parse returns for it.
DirNames ==
    { <<"A", "b", " ", "(", "1", "9", "9", "9", ")", ".", "m", "k", "v">>,
      <<"A", "b", ".", "S", "0", "1", "E", "0", "2", ".", "m", "k", "v">>,
      <<"A", "b", ".", "S", "0", "0", "E", "0", "1", ".", "m", "k", "v">>,
      <<"A", "b", ".", "m", "k", "v">>,
      <<"x", ".", "m", "k", "v">> }
DirEntries == { [name |-> name, parsed_info |-> parse(name)] : name \in DirNames }

\* What TMDB answers to a search: the request fails, the payload has no
\* "results", or it lists results; a result may lack "id" (NoInt).
SearchResults ==
    { [id |-> 1, title |-> <<"A", "b">>, date |-> <<"1", "9", "9", "9", "-", "0", "5", "-", "2", "0">>],
      [id |-> 2, title |-> <<"A", "c">>, date |-> <<"2", "0", "0", "0", "-", "0", "1", "-", "0", "1">>],
      [id |-> NoInt, title |-> <<"A", "b">>, date |-> <<>>] }

RECURSIVE SeqsUpTo(_, _)
SeqsUpTo(S, n) ==
    IF n = 0 THEN {<<>>}
    ELSE LET shorter == SeqsUpTo(S, n - 1)
         IN shorter \union {Append(q, x) : q \in shorter, x \in S}

ResponsesWith(results) ==
    {[kind |-> "error", results |-> <<>>], [kind |-> "no_results", results |-> <<>>]}
    \union {[kind |-> "ok", results |-> rs] : rs \in SeqsUpTo(results, MaxResults)}
SearchResponses == ResponsesWith(SearchResults)

\* What TMDB answers to get_tv_episode
EpisodeResponses ==
    { [kind |-> "error", name |-> NoStr],
      [kind |-> "ok", name |-> NoStr],
      [kind |-> "ok", name |-> <<"E", "p">>] }

\* A collaborator that is not called
NotCalled == [kind |-> "not_called"]
NotMoved == "not_called"

\* FileOrganizer(movies_dir, shows_dir, review_dir, tmdb_client, dry_run)
Organizers ==
    { [movies_dir |-> <<"Movies">>, shows_dir |-> <<"Shows">>,
       review_dir |-> r, tmdb_client |-> t, dry_run |-> d] :
         r \in {NoPath, <<"Review">>}, t \in BOOLEAN, d \in BOOLEAN }

\* ------------------------------------------------------------------ state
VARIABLES
    organizer,  \* the FileOrganizer: its directories, tmdb_client, dry_run
    files,      \* the MediaFile objects of the scan, in list order
    fs,         \* the file system
    call,       \* the preview / organize call in progress and its loop index
    previews,   \* the list preview builds: one destination per file
    summary,    \* the OrganizeSummary organize builds
    ncalls,     \* preview / organize calls begun
    last,       \* the latest loop iteration: its file before it, what the
                \* collaborators answered
    app_state,  \* the web server's module-level dict
    requests,   \* the web server's request threads: the handler each one
                \* runs, its local variables and its position
    session     \* the web session so far: what the latest successful
                \* /api/scan returned, the requests begun

web == <<app_state, requests, session>>
vars == <<organizer, files, fs, call, previews, summary, ncalls, last, web>>

Idle == [op |-> "idle", i |-> 0]
Done == [op |-> "done", i |-> 0]
NoStep == [op |-> "none", i |-> 0]

\* app_state of web/server.py; its lists hold references to MediaFile
\* objects.  The entry 'config' is read by /api/config only.
AppState(tmdb_client) ==
    [tmdb_client |-> tmdb_client, scanned_files |-> <<>>, previews |-> <<>>,
     files_to_organize |-> <<>>]
MaxThreads == 2
Threads == 1..MaxThreads
NoRequest == [op |-> "idle"]
NoSession == [requests |-> 0, scanned |-> <<>>, previewed |-> FALSE]

Init ==
    /\ organizer \in Organizers
    /\ files = <<>>
    /\ fs = [files |-> {}, dirs |-> {}]
    /\ call = Idle
    /\ previews = <<>>
    /\ summary = OrganizeSummary
    /\ ncalls = 0
    /\ last = NoStep
    /\ app_state = AppState(FALSE)
    /\ requests = [t \in Threads |-> NoRequest]
    /\ session = NoSession

\* FileScanner.scan: one MediaFile per media file of the directory tree
SourcePath(i, name) == <<"Source", Str(i), name>>

ScanOf(dir_entries) ==
    /\ call = Idle
    /\ files = <<>>
    /\ \E entries \in SeqsUpTo(dir_entries, MaxFiles) :
          /\ Len(entries) > 0
          /\ files' = [i \in 1..Len(entries) |->
                         _create_media_file(SourcePath(i, entries[i].name),
                                            entries[i].parsed_info)]
          /\ fs' = [files |-> {SourcePath(i, entries[i].name) : i \in 1..Len(entries)},
                    dirs |-> {}]
    /\ UNCHANGED <<organizer, call, previews, summary, ncalls, last, web>>
scan == ScanOf(DirEntries)

\* The collaborators a loop iteration calls, and so the answers it draws
SearchAnswers(asked, responses) == IF asked THEN responses ELSE {NotCalled}

EpisodeAsked(info, resp) ==
    /\ resp # NotCalled
    /\ is_tv_show(info)
    /\ BestMatch(search_tv(info.title, info.year, resp)).match # NoMatch
    /\ TruthyInt(info.season)
    /\ TruthyInt(info.episode)
EpisodeAnswers(info, resp) ==
    IF EpisodeAsked(info, resp) THEN EpisodeResponses ELSE {NotCalled}

Moves(body) == body.raised = NoException /\ body.result.action \in {"moved", "manual_review"}
MoveAsked(media_file, ident, org) ==
    /\ ~org.dry_run
    /\ Moves(OrganizeFileBody(media_file, ident, [org EXCEPT !.dry_run = TRUE],
                              fs, NotMoved))
MoveAnswers(media_file, ident, org) ==
    IF MoveAsked(media_file, ident, org) THEN MoveOutcomes ELSE {NotMoved}

\* What a search answered, as the caller can tell it apart
SearchOutcome(resp) ==
    IF resp = NotCalled THEN "not_called"
    ELSE IF resp.kind = "error" THEN "error"
    ELSE IF SearchRaises(resp) # NoException THEN "malformed"
    ELSE IF Len(ResultsOf(resp)) = 0 THEN "empty"
    ELSE "hit"

Step(op, i, media_file, resp, ep, mv) ==
    [op |-> op, i |-> i, before |-> media_file,
     search |-> SearchOutcome(resp), episode |-> ep.kind, mv |-> mv]

\* FileOrganizer.preview(files)
preview_begin ==
    /\ call = Idle
    /\ files # <<>>
    /\ ncalls < MaxCalls
    /\ call' = [op |-> "preview", i |-> 1]
    /\ previews' = <<>>
    /\ ncalls' = ncalls + 1
    /\ UNCHANGED <<organizer, files, fs, summary, last, web>>

PreviewStepOf(responses) ==
    /\ call.op = "preview"
    /\ call.i <= Len(files)
    /\ LET media_file == files[call.i]
           asked == organizer.tmdb_client /\ media_file.tmdb_match = NoMatch
       IN \E resp \in SearchAnswers(asked, responses) :
          \E ep \in EpisodeAnswers(media_file.parsed_info, resp) :
          \E r \in {PreviewFile(media_file,
                                Identify(media_file.parsed_info, asked, resp, ep),
                                organizer)} :
                /\ last' = Step("preview", call.i, media_file, resp, ep, NotMoved)
                /\ IF r.escaped # NoException
                   THEN /\ call' = Idle
                        /\ previews' = <<>>
                        /\ UNCHANGED files
                   ELSE /\ call' = [call EXCEPT !.i = @ + 1]
                        /\ previews' = Append(previews, r.dest)
                        /\ files' = [files EXCEPT ![call.i] = r.media_file]
    /\ UNCHANGED <<organizer, fs, summary, ncalls, web>>
preview_step == PreviewStepOf(SearchResponses)

preview_return ==
    /\ call.op = "preview"
    /\ call.i > Len(files)
    /\ call' = Idle
    /\ UNCHANGED <<organizer, files, fs, previews, summary, ncalls, last, web>>

\* FileOrganizer.organize(files)
organize_begin ==
    /\ call = Idle
    /\ files # <<>>
    /\ ncalls < MaxCalls
    /\ call' = [op |-> "organize", i |-> 1]
    /\ summary' = OrganizeSummary
    /\ ncalls' = ncalls + 1
    /\ UNCHANGED <<organizer, files, fs, previews, last, web>>

OrganizeStepOf(responses) ==
    /\ call.op = "organize"
    /\ call.i <= Len(files)
    /\ LET media_file == files[call.i]
       IN \E resp \in SearchAnswers(organizer.tmdb_client, responses) :
          \E ep \in EpisodeAnswers(media_file.parsed_info, resp) :
          \E ident \in {Identify(media_file.parsed_info, organizer.tmdb_client, resp, ep)} :
          \E mv \in MoveAnswers(media_file, ident, organizer) :
          \E r \in {organize_file(media_file, ident, organizer, fs, mv)} :
                   /\ last' = Step("organize", call.i, media_file, resp, ep, mv)
                   /\ files' = [files EXCEPT ![call.i] = r.media_file]
                   /\ fs' = r.fs
                   /\ IF r.escaped # NoException   \* the loop has no try block
                      THEN /\ call' = Idle
                           /\ UNCHANGED summary
                      ELSE /\ call' = [call EXCEPT !.i = @ + 1]
                           /\ summary' = add_result(summary, r.result, r.media_file)
    /\ UNCHANGED <<organizer, previews, ncalls, web>>
organize_step == OrganizeStepOf(SearchResponses)

\* organize returns the summary; its callers (cli.main, the /api/execute
\* handler) make no further call on these files.
organize_return ==
    /\ call.op = "organize"
    /\ call.i > Len(files)
    /\ call' = Done
    /\ UNCHANGED <<organizer, files, fs, previews, summary, ncalls, last, web>>

Next ==
    \/ scan
    \/ preview_begin
    \/ preview_step
    \/ preview_return
    \/ organize_begin
    \/ organize_step
    \/ organize_return

Spec == Init /\ [][Next]_vars

\* The same program over the file names and search results in which a
\* lookup finds the parsed title, with its year or without one.
LookupNames ==
    { <<"A", "b", " ", "(", "1", "9", "9", "9", ")", ".", "m", "k", "v">>,
      <<"A", "b", " ", "[", "1", "9", "9", "9", "]", ".", "S", "0", "1", "E", "0", "2", ".", "m", "k", "v">>,
      <<"x", ".", "m", "k", "v">> }
LookupEntries == { [name |-> name, parsed_info |-> parse(name)] : name \in LookupNames }
LookupResults ==
    { [id |-> 1, title |-> <<"A", "b">>, date |-> <<"1", "9", "9", "9", "-", "0", "5", "-", "2", "0">>],
      [id |-> 3, title |-> <<"X">>, date |-> <<"2", "0", "2", "2", "-", "0", "3", "-", "1", "8">>],
      [id |-> NoInt, title |-> <<"A", "b">>, date |-> <<>>] }
LookupResponses == ResponsesWith(LookupResults)

lookup_scan == ScanOf(LookupEntries)
lookup_preview_step == PreviewStepOf(LookupResponses)
lookup_organize_step == OrganizeStepOf(LookupResponses)

LookupNext ==
    \/ lookup_scan
    \/ preview_begin
    \/ lookup_preview_step
    \/ preview_return
    \/ organize_begin
    \/ lookup_organize_step
    \/ organize_return

Lookup == Init /\ [][LookupNext]_vars

\* ----------------------------------------------------------------- claims
\* What the claims speak of: the result and the object of file k, the
\* iteration that `last` records, library paths, the parser-only score.
Actions == {"moved", "manual_review", "skipped", "error"}
LibraryPath(path) == path # NoPath /\ path[1] \in {"Movies", "Shows"}
ReviewPath(media_file) == organizer.review_dir \o <<filename(media_file)>>
Confident(media_file) ==
    /\ get_media_type(media_file) \in {MOVIE, TV_SHOW}
    /\ media_file.confidence_score >= MIN_CONFIDENCE_THRESHOLD
Organized == last.op = "organize" /\ Len(summary.results) >= last.i
Previewed == last.op = "preview" /\ Len(previews) >= last.i
LastFile == files[last.i]
LastResult == summary.results[last.i]
\* The collaborators did their part: the payload was well formed and the
\* move, if one was asked for, succeeded.
NoOutsideFailure == last.search # "malformed" /\ last.mv # "move_error"
SentToReview(result, media_file) ==
    IF organizer.review_dir # NoPath
    THEN result.action = "manual_review"
         /\ result.destination_path = ReviewPath(media_file)
    ELSE result.action = "skipped" /\ result.destination_path = NoPath
ParserOnly(media_file) ==
    /\ media_file.confidence = _initial_confidence(media_file.parsed_info)
    /\ media_file.confidence_score =
           _confidence_to_score(_initial_confidence(media_file.parsed_info))
\* A preview ran to its end and no organize has changed the files since
PreviewStands == call.op \in {"preview", "idle"}

\* C1: a library destination (a "moved" result of organize_file, a
\* Movies/Shows path in the list of preview) exists only for a file whose
\* media kind is Movie or TVEpisode and whose score is at least 0.5.
C1_LibraryDestinationOnlyWhenConfident ==
    /\ \A k \in 1..Len(summary.results) :
          summary.results[k].action = "moved" => Confident(files[k])
    /\ PreviewStands =>
          \A k \in 1..Len(previews) : LibraryPath(previews[k]) => Confident(files[k])

\* C2: a file whose final score is below 0.5, or for which no destination
\* can be computed, goes to review_dir/filename as manual_review when a
\* review directory is configured and is skipped without destination when
\* none is.  (Stated for the iterations in which no collaborator failed: the
\* claim says it of every file.)
NoDestination(media_file) ==
    \/ _generate_destination(media_file, organizer).raised # NoException
    \/ _generate_destination(media_file, organizer).path = NoPath
C2_LowConfidenceGoesToReview ==
    (Organized /\ NoOutsideFailure
       /\ (LastFile.confidence_score < MIN_CONFIDENCE_THRESHOLD \/ NoDestination(LastFile)))
    => SentToReview(LastResult, LastFile)

\* C3: for a file of unknown kind, and for a TV file without season or
\* episode number, the resolver answers None without raising and the file
\* is sent to review or skipped, never reported as an error.
Unresolvable(media_file) ==
    LET m == media_file.tmdb_match
        season == IF m # NoMatch THEN m.season_number ELSE media_file.parsed_info.season
        episode == IF m # NoMatch THEN m.episode_number ELSE media_file.parsed_info.episode
    IN \/ get_media_type(media_file) = UNKNOWN
       \/ get_media_type(media_file) = TV_SHOW /\ (season = NoInt \/ episode = NoInt)
C3_ResolverFailsClosed ==
    /\ \A k \in 1..Len(files) :
          Unresolvable(files[k]) =>
             _generate_destination(files[k], organizer)
                 = [raised |-> NoException, path |-> NoPath]
    /\ (Organized /\ NoOutsideFailure /\ Unresolvable(LastFile))
          => LastResult.action \in {"manual_review", "skipped"}

\* C4: a lookup call that fails counts as no match: the file is not reported
\* as an error because of it, and when the search fails or finds nothing the
\* file keeps its parser-only score and tier.
C4_LookupFailureIsNoMatch ==
    /\ (Organized /\ last.mv # "move_error"
          /\ (last.search \in {"error", "empty"} \/ last.episode = "error"))
          => LastResult.action # "error"
    /\ ((Organized \/ Previewed) /\ last.search \in {"error", "empty"}
          /\ last.before.tmdb_match = NoMatch)
          => ParserOnly(LastFile)

\* C5: organize gives every file of the list exactly one result, in list
\* order, whatever files end in error: the loop never stops early and the
\* summary it returns holds len(files) results.
C5_OneResultPerFileInOrder ==
    /\ call.op = "organize" => Len(summary.results) = call.i - 1
    /\ last.op = "organize" => call.op \in {"organize", "done"}
    /\ call = Done =>
          /\ Len(summary.results) = Len(files)
          /\ summary.total_files = Len(files)
    /\ \A k \in 1..Len(summary.results) :
          /\ summary.results[k].source_path = files[k].source_path
          /\ summary.results[k].action \in Actions
C5_Witness ==
    /\ call = Done
    /\ Len(files) = 2
    /\ summary.results[1].action = "error"
    /\ summary.results[2].action = "moved"

\* C6: what preview reports for a file is what organize does with it, the
\* lookup answering the same: a Movies/Shows path exactly when organize
\* moves the file to that path, otherwise organize sends it to review or
\* skips it.
SameLookup ==
    IF last.before.tmdb_match = NoMatch
    THEN LastFile.tmdb_match = NoMatch
    ELSE last.search = "hit" /\ LastFile.tmdb_match = last.before.tmdb_match
C6_PreviewAgreesWithOrganize ==
    (Organized /\ NoOutsideFailure /\ Len(previews) = Len(files) /\ SameLookup)
    => IF LibraryPath(previews[last.i])
       THEN LastResult.action = "moved"
            /\ LastResult.destination_path = previews[last.i]
       ELSE LastResult.action \in {"manual_review", "skipped"}

\* C7: an organizer with dry_run set never asks for a move and creates no
\* directory, and it reports the action and the destination that the same
\* call without dry_run reports when its move succeeds.
LastIdent ==
    IF last.search = "malformed" THEN [raised |-> "'id'", match |-> NoMatch]
    ELSE IF last.search = "hit" THEN [raised |-> NoException, match |-> LastFile.tmdb_match]
    ELSE [raised |-> NoException, match |-> NoMatch]
WithoutDryRun ==
    organize_file(last.before, LastIdent, [organizer EXCEPT !.dry_run = FALSE], fs, "ok").result
C7_DryRunLeavesFileSystem ==
    organizer.dry_run =>
       /\ fs.dirs = {}
       /\ fs.files = {files[k].source_path : k \in 1..Len(files)}
       /\ last.op # "none" => last.mv = NotMoved
       /\ Organized =>
             /\ LastResult.action = WithoutDryRun.action
             /\ LastResult.destination_path = WithoutDryRun.destination_path
             /\ LastResult.success = WithoutDryRun.success
C7_Witness ==
    /\ organizer.dry_run
    /\ call = Done
    /\ Len(files) = 2
    /\ summary.results[1].action = "moved"
    /\ summary.results[2].action = "manual_review"

\* C8: the confidence tier of every MediaFile is the tier of its score:
\* high from 0.8, medium from 0.5, low below.
C8_TierIsFunctionOfScore ==
    \A k \in 1..Len(files) :
       files[k].confidence = _score_to_confidence(files[k].confidence_score)

\* C9: the confidence fields of a file are written at most twice, at
\* creation and by one enrichment; a file that has a match is not looked up
\* again.
C9_EnrichedAtMostOnce ==
    /\ \A k \in 1..Len(files) : files[k].writes <= 2
    /\ last.op # "none" =>
          ~(last.before.tmdb_match # NoMatch /\ last.search # "not_called")

\* C10: when the lookup returns a match, the score of the file becomes the
\* blended score of the match and its tier the tier of that score, whatever
\* the parser-only score was; with a match below 0.5 the file is sent to
\* review or skipped, not moved.
C10_MatchScoreSupersedes ==
    ((Organized \/ Previewed) /\ last.search = "hit") =>
       /\ LastFile.tmdb_match # NoMatch
       /\ LastFile.confidence_score = LastFile.tmdb_match.confidence_score
       /\ LastFile.confidence = _score_to_confidence(LastFile.tmdb_match.confidence_score)
       /\ (Organized /\ LastFile.confidence_score < MIN_CONFIDENCE_THRESHOLD)
             => LastResult.action # "moved"

\* ------------------------------------------------- the functions, applied
\* A second specification applies the pure functions of the program to
\* inputs drawn from bounded sets, once each behaviour; `last` records the
\* application.
ScoreTitles == { <<>>, <<"a">>, <<"A", "b">>, <<"a", "b">>, <<"A", "c">>, <<"a", "b", "c">> }
ScoreYears == {NoInt, 1999, 2000, 2001}

calculate_confidence ==
    /\ last = NoStep
    /\ \E query_title \in ScoreTitles, result_title \in ScoreTitles,
          query_year \in ScoreYears, result_year \in ScoreYears :
          last' = [op |-> "_calculate_confidence", i |-> 0,
                   query_title |-> query_title, result_title |-> result_title,
                   query_year |-> query_year, result_year |-> result_year,
                   result |-> _calculate_confidence(query_title, result_title,
                                                    query_year, result_year)]
    /\ UNCHANGED <<organizer, files, fs, call, previews, summary, ncalls, web>>

\* The file names the parser and the scanner are applied to: a title, two
\* parts (nothing, a year, an episode marker of one of the four patterns,
\* a word) and an extension.
NameHeads == { <<>>, <<"x">>, <<"A", "b">>, <<"A", "b", " ", "(", "1", "9", "9", "9", ")">> }
NameParts ==
    { <<>>,
      <<".", "1", "9", "9", "9">>,
      <<" ", "(", "1", "9", "9", "9", ")">>,
      <<".", "S", "0", "1", "E", "0", "2">>,
      <<".", "S", "0", "0", "E", "0", "1">>,
      <<".", "S", "0", "1", "E", "0", "0">>,
      <<".", "2", "x", "0", "3">>,
      <<".", "S", "e", "a", "s", "o", "n", " ", "4", " ", "E", "p", "i", "s", "o", "d", "e", " ", "5">>,
      <<".", "S", "0", "6", ".", "E", "0", "7">>,
      <<".", "C", "d">> }
NameExtensions == { <<".", "m", "k", "v">> }
FileNames ==
    { head \o first \o second \o ext :
        head \in NameHeads, first \in NameParts, second \in NameParts,
        ext \in NameExtensions }

\* FilenameParser.parse applied to a file name
parse_file_name ==
    /\ last = NoStep
    /\ \E file_name \in FileNames :
          last' = [op |-> "parse", i |-> 0, file_name |-> file_name,
                   parsed_info |-> parse(file_name)]
    /\ UNCHANGED <<organizer, files, fs, call, previews, summary, ncalls, web>>

\* FileScanner._create_media_file applied to a path of the source directory
create_media_file ==
    /\ last = NoStep
    /\ \E file_name \in FileNames :
          last' = [op |-> "_create_media_file", i |-> 0, file_name |-> file_name,
                   media_file |-> _create_media_file(SourcePath(1, file_name),
                                                     parse(file_name))]
    /\ UNCHANGED <<organizer, files, fs, call, previews, summary, ncalls, web>>

\* The free text FileOrganizer._clean_for_filesystem is applied to: a run of
\* letters about as long as the limit, between two affixes
Repeat(c, n) == [i \in 1..n |-> c]
Affixes == { <<>>, <<" ">>, <<".">>, <<" ", "b">>, <<":", "?">>, <<" ", " ", "*">> }
FillLengths == {0, 1, MaxSegmentLen - 1, MaxSegmentLen, MaxSegmentLen + 1}
FreeTexts ==
    { pre \o Repeat("a", n) \o post : pre \in Affixes, post \in Affixes, n \in FillLengths }

clean_for_filesystem ==
    /\ last = NoStep
    /\ \E name \in FreeTexts :
          last' = [op |-> "_clean_for_filesystem", i |-> 0, name |-> name,
                   result |-> _clean_for_filesystem(name)]
    /\ UNCHANGED <<organizer, files, fs, call, previews, summary, ncalls, web>>

\* The files FileOrganizer._generate_destination is applied to: a scanned
\* file, as it is or with the match of a lookup attached
DestinationNames ==
    { <<"A", "b", " ", "(", "1", "9", "9", "9", ")", ".", "m", "k", "v">>,
      <<"A", "b", ".", "S", "0", "1", "E", "1", "2", "3", ".", "C", "d", ".", "m", "k", "v">>,
      <<"A", "b", ".", "S", "0", "0", "E", "0", "1", ".", "m", "k", "v">>,
      <<".", "S", "0", "1", "E", "0", "2", ".", "m", "k", "v">>,
      <<"A", "b", ".", "m", "k", "v">> }
DestinationResults ==
    { [id |-> 1, title |-> <<"A", "c">>, date |-> <<"2", "0", "0", "0", "-", "0", "1", "-", "0", "1">>],
      [id |-> 2, title |-> Repeat("a", MaxSegmentLen), date |-> <<"1", "9", "9", "9", "-", "0", "5", "-", "2", "0">>],
      [id |-> 3, title |-> Repeat("a", MaxSegmentLen - 1) \o <<" ", "b">>, date |-> <<>>] }
DestinationEpisodes ==
    EpisodeResponses \union {[kind |-> "ok", name |-> Repeat("e", MaxSegmentLen)]}
Attach(media_file, ident) ==
    IF ident.match # NoMatch THEN EnrichOrganize(media_file, ident.match) ELSE media_file

generate_destination ==
    /\ last = NoStep
    /\ \E name \in DestinationNames :
       \E scanned \in {_create_media_file(SourcePath(1, name), parse(name))} :
       \E resp \in SearchAnswers(organizer.tmdb_client, ResponsesWith(DestinationResults)) :
       \E ep \in IF EpisodeAsked(scanned.parsed_info, resp)
                  THEN DestinationEpisodes ELSE {NotCalled} :
       \E ident \in {Identify(scanned.parsed_info, organizer.tmdb_client, resp, ep)} :
       \E media_file \in {Attach(scanned, ident)} :
          /\ ident.raised = NoException
          /\ last' = [op |-> "_generate_destination", i |-> 0, media_file |-> media_file,
                      dest |-> _generate_destination(media_file, organizer)]
    /\ UNCHANGED <<organizer, files, fs, call, previews, summary, ncalls, web>>

FunctionsNext ==
    \/ calculate_confidence
    \/ parse_file_name
    \/ create_media_file
    \/ clean_for_filesystem
    \/ generate_destination

Functions == Init /\ [][FunctionsNext]_vars

\* C11: the blended confidence is clamp(0.8 * similarity + yearTerm, 0, 1),
\* yearTerm being +0.2 for two equal years, +0.1 for two years one apart,
\* -0.1 whenever the query has no year, 0 otherwise; it lies in [0, 1], and
\* so does the score the match stores.
WeightedSimilarity(a, b) ==
    IF Len(a) + Len(b) = 0 THEN 800
    ELSE (1600 * MatchingChars(Lower(a), 1, Len(a), Lower(b), 1, Len(b)))
            \div (Len(a) + Len(b))
YearTerm(query_year, result_year) ==
    IF query_year = NoInt THEN -100
    ELSE IF result_year = NoInt THEN 0
    ELSE IF query_year = result_year THEN 200
    ELSE IF query_year - result_year \in {-1, 1} THEN 100
    ELSE 0
ClampedSum(x) == IF x < 0 THEN 0 ELSE IF x > 1000 THEN 1000 ELSE x
C11_BlendedConfidence ==
    last.op = "_calculate_confidence" =>
       /\ last.result = ClampedSum(WeightedSimilarity(last.query_title, last.result_title)
                                     + YearTerm(last.query_year, last.result_year))
       /\ last.result \in 0..1000
C11_Witness ==
    /\ last.op = "_calculate_confidence"
    /\ last.query_year = NoInt
    /\ last.result_year = 1999
    /\ last.result = 700

\* C12: a file (movie or TV episode) whose lookup returned a match with the
\* title and the year of the parsed candidate has a blended confidence of at
\* least 0.9 and is reported as moved, the move itself not failing.
IdenticalMatch(media_file) ==
    /\ media_file.tmdb_match # NoMatch
    /\ media_file.parsed_info.year # NoInt
    /\ media_file.tmdb_match.title = media_file.parsed_info.title
    /\ media_file.tmdb_match.year = media_file.parsed_info.year
C12_IdenticalMatchIsMoved ==
    (Organized /\ NoOutsideFailure /\ last.search = "hit" /\ IdenticalMatch(LastFile))
    => /\ LastFile.tmdb_match.confidence_score >= 900
       /\ LastResult.action = "moved"

\* C13: a file name in which one of the four TV patterns matches parses to
\* a TV episode whose season and episode are integers of at least 1.
MatchesTvPattern(file_name) ==
    \E k \in TV_PATTERNS : TvSearch(k, Stem(file_name)) # NoRegexMatch
C13_TvPatternGivesPositiveNumbers ==
    (last.op = "parse" /\ MatchesTvPattern(last.file_name))
    => /\ last.parsed_info.media_type = TV_SHOW
       /\ last.parsed_info.season >= 1
       /\ last.parsed_info.episode >= 1

\* C14: a file name that holds a 4-digit year of 1900..2099 with a separator
\* on both sides (the dot that starts the extension included) and in which no
\* TV pattern matches parses to a movie with that year, its title cleaned
\* from the text before the year.
YearSeparators == {".", " ", "_", "(", "[", "-", ")", "]"}
BoundedYearAt(s, p) ==
    /\ At(s, p) \in YearSeparators
    /\ At(s, p + 5) \in YearSeparators
    /\ \A j \in 1..4 : IsDigit(At(s, p + j))
    /\ ParseInt(SubSeq(s, p + 1, p + 4)) \in FirstYear..LastYear
BoundedYears(s) == {p \in 1..Len(s) : BoundedYearAt(s, p)}
C14_BoundedYearGivesMovie ==
    (last.op = "parse" /\ ~MatchesTvPattern(last.file_name)
        /\ BoundedYears(last.file_name) # {})
    => LET p == Min(BoundedYears(last.file_name))
       IN /\ last.parsed_info.media_type = MOVIE
          /\ last.parsed_info.year = ParseInt(SubSeq(last.file_name, p + 1, p + 4))
          /\ last.parsed_info.title = _clean_title(SubSeq(last.file_name, 1, p - 1))

\* C15: a file name in which a TV pattern matches is a TV episode also when
\* it holds a year, and its season and episode are those of the first rule
\* of the list SxxEyy, NxM, Season N Episode M, Sxx.Eyy that matches
\* anywhere in the name, another rule matching further left or not.
RuleMatches(k, s) == {p \in 1..Len(s) : TvPatternAt(k, s, p) # NoRegexMatch}
MatchingRules(s) == {k \in TV_PATTERNS : RuleMatches(k, s) # {}}
DecidingMatch(s) ==
    TvPatternAt(Min(MatchingRules(s)), s, Min(RuleMatches(Min(MatchingRules(s)), s)))
C15_TvRulePriority ==
    (last.op = "parse" /\ MatchingRules(Stem(last.file_name)) # {})
    => /\ last.parsed_info.media_type = TV_SHOW
       /\ last.parsed_info.season = ParseInt(DecidingMatch(Stem(last.file_name)).groups[1])
       /\ last.parsed_info.episode = ParseInt(DecidingMatch(Stem(last.file_name)).groups[2])
C15_Witness ==
    /\ last.op = "parse"
    /\ YearSearch(Stem(last.file_name)) > 0
    /\ \E k \in MatchingRules(Stem(last.file_name)) :
          /\ k > Min(MatchingRules(Stem(last.file_name)))
          /\ Min(RuleMatches(k, Stem(last.file_name))) < DecidingMatch(Stem(last.file_name)).start
    /\ last.parsed_info.media_type = TV_SHOW
    /\ last.parsed_info.season = 1
    /\ last.parsed_info.episode = 2

\* C16: the initial confidence of a parsed candidate is 0.85/High for a TV
\* episode with a non-empty title and for a movie with a year and a
\* non-empty title, 0.6/Medium for a title of at least 2 characters without
\* a year, and 0.3/Low in every other case.
InitialTier(info) ==
    IF is_tv_show(info) /\ Len(info.title) > 0 THEN HIGH
    ELSE IF info.media_type = MOVIE /\ info.year # NoInt /\ Len(info.title) > 0 THEN HIGH
    ELSE IF Len(info.title) >= 2 /\ info.year = NoInt THEN MEDIUM
    ELSE LOW
InitialScore(tier) ==
    IF tier = HIGH THEN 850 ELSE IF tier = MEDIUM THEN 600 ELSE 300
C16_InitialConfidenceTable ==
    last.op = "_create_media_file"
    => /\ last.media_file.confidence = InitialTier(last.media_file.parsed_info)
       /\ last.media_file.confidence_score = InitialScore(last.media_file.confidence)

\* C17: a file without year and TV pattern whose parsed title has one
\* character ('x.mkv') has tier Low and is sent to review (skipped without a
\* review directory) by every organizer, with or without a TMDB client. A
\* malformed search payload and a failing move are the collaborators'
\* failures and are reported as errors.
OneCharTitle(media_file) ==
    /\ media_file.parsed_info.year = NoInt
    /\ ~is_tv_show(media_file.parsed_info)
    /\ Len(media_file.parsed_info.title) = 1
MoveFailed(result) == result.action = "error" /\ result.error_message = "move: failed"
LowAndReviewed ==
    /\ LastFile.confidence = LOW
    /\ SentToReview(LastResult, LastFile) \/ MoveFailed(LastResult)
C17_OneCharTitleGoesToReview ==
    (Organized /\ last.search # "malformed" /\ OneCharTitle(LastFile))
    => LowAndReviewed
\* C17 as amended: the same, unless a match with a blended confidence of at
\* least 0.5 is attached to the file.
StrongMatch(media_file) ==
    /\ media_file.tmdb_match # NoMatch
    /\ media_file.tmdb_match.confidence_score >= MIN_CONFIDENCE_THRESHOLD
C17_OneCharTitleWithoutStrongMatch ==
    (Organized /\ last.search # "malformed" /\ OneCharTitle(LastFile)
        /\ ~StrongMatch(LastFile))
    => LowAndReviewed
C17_Witness ==
    /\ Organized
    /\ OneCharTitle(LastFile)
    /\ last.search = "hit"
    /\ LastFile.tmdb_match # NoMatch
    /\ ~StrongMatch(LastFile)
    /\ LastResult.action = "manual_review"

\* C18: _clean_for_filesystem removes every character of the illegal set
\* and gives a text of at most 200 characters without a space or dot at
\* either end, and no segment of a generated destination (movie folder, show
\* folder, file name) is longer than 200 characters.
NoEdgeSpaceOrDot(s) ==
    Len(s) > 0 => s[1] \notin {" ", "."} /\ s[Len(s)] \notin {" ", "."}
C18_SanitizedSegments ==
    /\ last.op = "_clean_for_filesystem"
       => /\ \A k \in 1..Len(last.result) : last.result[k] \notin InvalidChars
          /\ Len(last.result) <= MaxSegmentLen
          /\ NoEdgeSpaceOrDot(last.result)
    /\ (last.op = "_generate_destination" /\ last.dest.path # NoPath)
       => \A k \in 2..Len(last.dest.path) : Len(last.dest.path[k]) <= MaxSegmentLen

\* C19: the destination of a file with a match attached is built from the
\* match alone: it is the destination of the same file without a match whose
\* parsed title, year, season, episode, episode title and media kind are
\* those of the match.
AsParsed(match) ==
    [title |-> match.title, year |-> match.year,
     season |-> match.season_number, episode |-> match.episode_number,
     episode_title |-> match.episode_title, media_type |-> match.media_type]
MatchAlone(media_file) ==
    [media_file EXCEPT !.parsed_info = AsParsed(media_file.tmdb_match),
                       !.tmdb_match = NoMatch]
C19_DestinationFromMatch ==
    (last.op = "_generate_destination" /\ last.media_file.tmdb_match # NoMatch)
    => last.dest = _generate_destination(MatchAlone(last.media_file), organizer)
C19_Witness ==
    /\ last.op = "_generate_destination"
    /\ last.media_file.tmdb_match # NoMatch
    /\ last.media_file.tmdb_match.title = <<"A", "c">>
    /\ last.media_file.parsed_info.title = <<"A", "b">>
    /\ last.media_file.parsed_info.year = 1999
    /\ last.dest.path = <<"Movies", <<"A", "c", " ", "(", "2", "0", "0", "0", ")">>,
                          <<"A", "c", " ", "(", "2", "0", "0", "0", ")", ".", "m", "k", "v">>>>

\* C20: the destination of a TV episode with season s and episode e is
\* ShowsRoot/Title/Season SS/Title - SssEee[ - EpisodeTitle]ext, the numbers
\* written with at least two digits (a zero before one digit, every digit of
\* a number from 100), the episode title part there exactly when the episode
\* title in force is not empty.
InForce(media_file) ==
    IF media_file.tmdb_match # NoMatch
    THEN AsParsed(media_file.tmdb_match) ELSE media_file.parsed_info
AtLeastTwoDigits(n) == IF n <= 9 THEN <<"0", Digits[n + 1]>> ELSE Str(n)
EpisodeTag(s, e) == <<"S">> \o AtLeastTwoDigits(s) \o <<"E">> \o AtLeastTwoDigits(e)
EpisodeTitlePart(episode_title) ==
    IF episode_title \in {NoStr, <<>>} THEN <<>>
    ELSE <<" ", "-", " ">> \o _clean_for_filesystem(episode_title)
EpisodeLayout(media_file, in_force) ==
    PathJoin(organizer.shows_dir,
         << _clean_for_filesystem(in_force.title),
            <<"S", "e", "a", "s", "o", "n", " ">> \o AtLeastTwoDigits(in_force.season),
            _clean_for_filesystem(in_force.title) \o <<" ", "-", " ">>
               \o EpisodeTag(in_force.season, in_force.episode)
               \o EpisodeTitlePart(in_force.episode_title)
               \o extension(media_file) >>)
IsEpisode(in_force) ==
    in_force.media_type = TV_SHOW /\ in_force.season # NoInt /\ in_force.episode # NoInt
C20_EpisodeLayout ==
    (last.op = "_generate_destination" /\ IsEpisode(InForce(last.media_file)))
    => /\ last.dest.raised = NoException
       /\ last.dest.path = EpisodeLayout(last.media_file, InForce(last.media_file))
C20_Witness ==
    /\ last.op = "_generate_destination"
    /\ InForce(last.media_file).episode = 123
    /\ last.dest.path = <<"Shows", <<"A", "b">>,
                          <<"S", "e", "a", "s", "o", "n", " ", "0", "1">>,
                          <<"A", "b", " ", "-", " ", "S", "0", "1", "E", "1", "2", "3", " ", "-", " ", "C", "d", ".", "m", "k", "v">>>>

\* C21: when the move of a file fails, to the library or to the review
\* directory, the result of the file is "error" with success false, no
\* destination and the message of the failure; the summary counts it under
\* errors and under nothing else, and the loop goes on to the next file.
CountOf(action) == Cardinality({k \in 1..Len(summary.results) : summary.results[k].action = action})
C21_MoveFailureIsError ==
    (last.op = "organize" /\ last.mv = "move_error")
    => /\ call.op \in {"organize", "done"}
       /\ Len(summary.results) >= last.i
       /\ LastResult.action = "error"
       /\ ~LastResult.success
       /\ LastResult.destination_path = NoPath
       /\ LastResult.error_message = "move: failed"
       /\ summary.errors = CountOf("error")
       /\ summary.movies_organized + summary.shows_organized = CountOf("moved")
       /\ summary.manual_review = CountOf("manual_review")
C21_Witness ==
    /\ call = Done
    /\ Len(files) = 2
    /\ summary.results[1].action = "error"
    /\ summary.results[1].error_message = "move: failed"
    /\ summary.results[2].action = "manual_review"
    /\ summary.errors = 1
    /\ summary.manual_review = 1

\* C22: every ParsedInfo that parse returns is a TV episode exactly when it
\* has both a season and an episode, a movie exactly when it has a year of
\* 1900..2099 and neither a season nor an episode, and unknown otherwise.
Present(n) == n # NoInt
KindOf(info) ==
    IF Present(info.season) /\ Present(info.episode) THEN TV_SHOW
    ELSE IF /\ Present(info.year) /\ FirstYear <= info.year /\ info.year <= LastYear
            /\ ~Present(info.season) /\ ~Present(info.episode) THEN MOVIE
    ELSE UNKNOWN
C22_KindFollowsFields ==
    last.op = "parse" => last.parsed_info.media_type = KindOf(last.parsed_info)
\* a name with a year and a TV pattern is a TV episode that carries the year
C22_Witness ==
    /\ last.op = "parse"
    /\ last.parsed_info.media_type = TV_SHOW
    /\ Present(last.parsed_info.year)
    /\ Present(last.parsed_info.season)
    /\ Present(last.parsed_info.episode)
\* a name with neither is of unknown kind
C22_WitnessUnknown ==
    /\ last.op = "parse"
    /\ last.parsed_info.media_type = UNKNOWN
    /\ ~Present(last.parsed_info.year)
    /\ Len(last.parsed_info.title) > 0

\* C23: after every add_result of organize, total_files is the number of
\* results and the sum of the five counters, each counter is the number of
\* results with its action, and a "moved" result is counted as a movie
\* exactly when the kind of its file is MOVIE and as a show exactly when it
\* is TV_SHOW.  results[k] is the result of files[k].
MovedOfKind(kind) ==
    Cardinality({k \in 1..Len(summary.results) :
                    /\ summary.results[k].action = "moved"
                    /\ get_media_type(files[k]) = kind})
C23_SummaryTallies ==
    /\ Len(summary.results) <= Len(files)
    /\ summary.total_files = Len(summary.results)
    /\ summary.total_files = summary.movies_organized + summary.shows_organized
                             + summary.manual_review + summary.skipped + summary.errors
    /\ summary.manual_review = CountOf("manual_review")
    /\ summary.skipped = CountOf("skipped")
    /\ summary.errors = CountOf("error")
    /\ summary.movies_organized = MovedOfKind(MOVIE)
    /\ summary.shows_organized = MovedOfKind(TV_SHOW)
C23_Witness ==
    /\ call = Done
    /\ summary.total_files = 2
    /\ summary.movies_organized = 1
    /\ summary.shows_organized = 1
    /\ \E k \in 1..2 : /\ summary.results[k].action = "moved"
                       /\ get_media_type(files[k]) = MOVIE
                       /\ get_media_type(files[3 - k]) = TV_SHOW

\* C24: in an organize call that is not a dry run, no two files of the batch
\* are moved to the same destination path, whether the destination is in the
\* library or is review_dir / filename.
Placed(result) == result.action \in {"moved", "manual_review"}
C24_NoSharedDestination ==
    ~organizer.dry_run
    => \A k, j \in 1..Len(summary.results) :
          (k # j /\ Placed(summary.results[k]) /\ Placed(summary.results[j]))
          => summary.results[k].destination_path # summary.results[j].destination_path

\* ------------------------------------------------------------- web server
\* web/server.py: the handlers of /api/scan, /api/preview and /api/execute
\* over app_state.  `files` is the heap of MediaFile objects the scans
\* created; the lists of app_state and of the requests hold indices into it.
MaxRequests == 4

\* The source directories of the machine and the media files below them, in
\* the order rglob yields them
SourceDirs == { <<"A">>, <<"B">> }
SourceFiles ==
    << <<"A", <<"A", "b", " ", "(", "1", "9", "9", "9", ")", ".", "m", "k", "v">>>>,
       <<"A", <<"x", ".", "m", "k", "v">>>>,
       <<"B", <<"A", "b", ".", "m", "k", "v">>>> >>
WebResults ==
    { [id |-> 1, title |-> <<"A", "b">>, date |-> <<"1", "9", "9", "9", "-", "0", "5", "-", "2", "0">>] }
WebResponses == ResponsesWith(WebResults)

\* request.json of the three handlers
SourceDirData == SourceDirs \union {NoPath, <<"Gone">>}
DirData ==
    { [movies_dir |-> NoPath, shows_dir |-> <<"Shows">>, review_dir |-> NoPath],
      [movies_dir |-> <<"Movies">>, shows_dir |-> <<"Shows">>, review_dir |-> NoPath],
      [movies_dir |-> <<"Movies">>, shows_dir |-> <<"Shows">>, review_dir |-> <<"Review">>] }
SelectedIndices == { <<>>, <<1>> }

NoOrganizer == [none |-> TRUE]
WebInit ==
    /\ organizer = NoOrganizer
    /\ files = <<>>
    /\ fs = [files |-> Range(SourceFiles), dirs |-> {}]
    /\ call = Idle
    /\ previews = <<>>
    /\ summary = OrganizeSummary
    /\ ncalls = 0
    /\ last = NoStep
    /\ app_state \in {AppState(tmdb_client) : tmdb_client \in BOOLEAN}
    /\ requests = [t \in Threads |-> NoRequest]
    /\ session = NoSession

\* jsonify(...), status: what a handler returns
Response(op, t, status, error, body) ==
    [op |-> op, i |-> 0, t |-> t, status |-> status, error |-> error, body |-> body]
Begun == [session EXCEPT !.requests = @ + 1]
Accepts(t) == requests[t] = NoRequest /\ session.requests < MaxRequests

\* scanner.scan(source_path, recursive=True)
Under(dir, path) == Len(path) > Len(dir) /\ SubSeq(path, 1, Len(dir)) = dir
ScanPaths(dir) == SelectSeq(SourceFiles, LAMBDA path : Under(dir, path) /\ path \in fs.files)
Scanned(paths) ==
    [k \in 1..Len(paths) |-> _create_media_file(paths[k], parse(paths[k][Len(paths[k])]))]

\* POST /api/scan
scan_directory(t) ==
    /\ Accepts(t)
    /\ \E source_dir \in SourceDirData :
          IF source_dir = NoPath
          THEN /\ last' = Response("scan", t, 400, "Source directory required", <<>>)
               /\ session' = Begun
               /\ UNCHANGED <<files, app_state>>
          ELSE IF source_dir \notin SourceDirs
          THEN /\ last' = Response("scan", t, 404, "Directory not found", <<>>)
               /\ session' = Begun
               /\ UNCHANGED <<files, app_state>>
          ELSE \E paths \in {ScanPaths(source_dir)} :
               /\ files' = files \o Scanned(paths)
               /\ app_state' = [app_state EXCEPT
                                  !.scanned_files = [k \in 1..Len(paths) |-> Len(files) + k]]
               /\ session' = [Begun EXCEPT !.scanned = paths]
               /\ last' = Response("scan", t, 200, NoException, Len(paths))
    /\ UNCHANGED <<organizer, fs, call, previews, summary, ncalls, requests>>

FileOrganizer(data, tmdb_client, dry_run) ==
    [movies_dir |-> data.movies_dir, shows_dir |-> data.shows_dir,
     review_dir |-> data.review_dir, tmdb_client |-> tmdb_client, dry_run |-> dry_run]

\* [scanned_files[i] for i in selected_indices if i < len(scanned_files)],
\* or the list itself when selected_indices is None or empty
Selected(scanned_files, selected_indices) ==
    IF Len(selected_indices) > 0
    THEN LET kept == SelectSeq(selected_indices, LAMBDA i : i < Len(scanned_files))
         IN [k \in 1..Len(kept) |-> scanned_files[kept[k] + 1]]
    ELSE scanned_files

\* POST /api/preview, up to the call of organizer.preview
preview_organization(t) ==
    /\ Accepts(t)
    /\ session' = Begun
    /\ \E data \in DirData, selected_indices \in SelectedIndices :
          IF data.movies_dir = NoPath \/ data.shows_dir = NoPath
          THEN /\ last' = Response("preview", t, 400, "Movies and Shows directories required", <<>>)
               /\ UNCHANGED requests
          ELSE IF app_state.scanned_files = <<>>
          THEN /\ last' = Response("preview", t, 400, "No files scanned. Run scan first.", <<>>)
               /\ UNCHANGED requests
          ELSE /\ requests' = [requests EXCEPT ![t] =
                                 [op |-> "preview",
                                  organizer |-> FileOrganizer(data, app_state.tmdb_client, TRUE),
                                  todo |-> Selected(app_state.scanned_files, selected_indices),
                                  i |-> 1,
                                  previews |-> <<>>]]
               /\ UNCHANGED last
    /\ UNCHANGED <<organizer, files, fs, call, previews, summary, ncalls, app_state>>

\* one iteration of the loop of organizer.preview(files_to_process); an
\* exception leaves the handler through `except Exception` with status 500
preview_organization_file(t) ==
    /\ requests[t].op = "preview"
    /\ requests[t].i <= Len(requests[t].todo)
    /\ LET req == requests[t]
           ref == req.todo[req.i]
           media_file == files[ref]
           asked == req.organizer.tmdb_client /\ media_file.tmdb_match = NoMatch
       IN \E resp \in SearchAnswers(asked, WebResponses) :
          \E ep \in EpisodeAnswers(media_file.parsed_info, resp) :
          \E r \in {PreviewFile(media_file,
                                Identify(media_file.parsed_info, asked, resp, ep),
                                req.organizer)} :
                IF r.escaped # NoException
                THEN /\ requests' = [requests EXCEPT ![t] = NoRequest]
                     /\ last' = Response("preview", t, 500, r.escaped, <<>>)
                     /\ UNCHANGED files
                ELSE /\ requests' = [requests EXCEPT ![t].i = @ + 1,
                                                     ![t].previews = Append(@, [file |-> ref, dest |-> r.dest])]
                     /\ files' = [files EXCEPT ![ref] = r.media_file]
                     /\ UNCHANGED last
    /\ UNCHANGED <<organizer, fs, call, previews, summary, ncalls, app_state, session>>

\* POST /api/preview, from the return of organizer.preview
preview_organization_return(t) ==
    /\ requests[t].op = "preview"
    /\ requests[t].i > Len(requests[t].todo)
    /\ app_state' = [app_state EXCEPT !.previews = requests[t].previews,
                                      !.files_to_organize = requests[t].todo]
    /\ requests' = [requests EXCEPT ![t] = NoRequest]
    /\ session' = [session EXCEPT !.previewed = TRUE]
    /\ last' = Response("preview", t, 200, NoException, Len(requests[t].previews))
    /\ UNCHANGED <<organizer, files, fs, call, previews, summary, ncalls>>

\* POST /api/execute, up to the call of organizer.organize; `previewed` notes
\* whether a preview stored its list since the latest execute that organized
execute_organization(t) ==
    /\ Accepts(t)
    /\ \E data \in DirData :
          IF data.movies_dir = NoPath \/ data.shows_dir = NoPath
          THEN /\ last' = Response("execute", t, 400, "Movies and Shows directories required", <<>>)
               /\ session' = Begun
               /\ UNCHANGED requests
          ELSE IF app_state.files_to_organize = <<>>
          THEN /\ last' = Response("execute", t, 400, "No files to organize. Run preview first.", <<>>)
               /\ session' = Begun
               /\ UNCHANGED requests
          ELSE /\ requests' = [requests EXCEPT ![t] =
                                 [op |-> "execute",
                                  organizer |-> FileOrganizer(data, app_state.tmdb_client, FALSE),
                                  todo |-> app_state.files_to_organize,
                                  i |-> 1,
                                  summary |-> OrganizeSummary,
                                  previewed |-> session.previewed]]
               /\ session' = [Begun EXCEPT !.previewed = FALSE]
               /\ UNCHANGED last
    /\ UNCHANGED <<organizer, files, fs, call, previews, summary, ncalls, app_state>>

\* one iteration of the loop of organizer.organize(files_to_organize)
execute_organization_file(t) ==
    /\ requests[t].op = "execute"
    /\ requests[t].i <= Len(requests[t].todo)
    /\ LET req == requests[t]
           ref == req.todo[req.i]
           media_file == files[ref]
       IN \E resp \in SearchAnswers(req.organizer.tmdb_client, WebResponses) :
          \E ep \in EpisodeAnswers(media_file.parsed_info, resp) :
          \E ident \in {Identify(media_file.parsed_info, req.organizer.tmdb_client, resp, ep)} :
          \E mv \in MoveAnswers(media_file, ident, req.organizer) :
          \E r \in {organize_file(media_file, ident, req.organizer, fs, mv)} :
                /\ files' = [files EXCEPT ![ref] = r.media_file]
                /\ fs' = r.fs
                /\ IF r.escaped # NoException
                   THEN /\ requests' = [requests EXCEPT ![t] = NoRequest]
                        /\ last' = Response("execute", t, 500, r.escaped, <<>>)
                   ELSE /\ requests' = [requests EXCEPT
                                          ![t].i = @ + 1,
                                          ![t].summary = add_result(@, r.result, r.media_file)]
                        /\ UNCHANGED last
    /\ UNCHANGED <<organizer, call, previews, summary, ncalls, app_state, session>>

\* POST /api/execute, from the return of organizer.organize
execute_organization_return(t) ==
    /\ requests[t].op = "execute"
    /\ requests[t].i > Len(requests[t].todo)
    /\ app_state' = [app_state EXCEPT !.scanned_files = <<>>, !.previews = <<>>,
                                      !.files_to_organize = <<>>]
    /\ requests' = [requests EXCEPT ![t] = NoRequest]
    /\ last' = Response("execute", t, 200, NoException, requests[t].summary)
    /\ UNCHANGED <<organizer, files, fs, call, previews, summary, ncalls, session>>

\* The session of one client that sends a request after the response to the
\* one before: a single request thread.
session_scan == scan_directory(1)
session_preview == preview_organization(1)
session_preview_file == preview_organization_file(1)
session_preview_return == preview_organization_return(1)
session_execute == execute_organization(1)
session_execute_file == execute_organization_file(1)
session_execute_return == execute_organization_return(1)

SessionNext ==
    \/ session_scan
    \/ session_preview
    \/ session_preview_file
    \/ session_preview_return
    \/ session_execute
    \/ session_execute_file
    \/ session_execute_return

Session == WebInit /\ [][SessionNext]_vars

\* The server with its request threads: the steps of the handlers of
\* different requests interleave.
threaded_scan == \E t \in Threads : scan_directory(t)
threaded_preview == \E t \in Threads : preview_organization(t)
threaded_preview_file == \E t \in Threads : preview_organization_file(t)
threaded_preview_return == \E t \in Threads : preview_organization_return(t)
threaded_execute == \E t \in Threads : execute_organization(t)
threaded_execute_file == \E t \in Threads : execute_organization_file(t)
threaded_execute_return == \E t \in Threads : execute_organization_return(t)

WebNext ==
    \/ threaded_scan
    \/ threaded_preview
    \/ threaded_preview_file
    \/ threaded_preview_return
    \/ threaded_execute
    \/ threaded_execute_file
    \/ threaded_execute_return

Web == WebInit /\ [][WebNext]_vars

\* C25: in the session of one client, every file an /api/execute request
\* hands to organize is a file the most recent successful /api/scan
\* returned, and an execute request organizes files only if a preview
\* stored its list since the latest execute that organized (otherwise it
\* gets the 'Run preview first' error and no request state).
Executing(t) == requests[t].op = "execute"
Handed(t) == {requests[t].todo[k] : k \in 1..(requests[t].i - 1)}
FromLatestScan(t) ==
    \A ref \in Handed(t) : files[ref].source_path \in Range(session.scanned)
C25_ExecuteFollowsLatestScan ==
    \A t \in Threads :
       Executing(t) => requests[t].previewed /\ FromLatestScan(t)

\* C26: when the server handles requests concurrently, no file is handed to
\* organize by two execute requests that are in progress at the same time,
\* and no file is enriched by a preview request and routed by an execute
\* request that are in progress at the same time.
Previewing(t) == requests[t].op = "preview"
C26_OneRequestPerFile ==
    \A t \in Threads : \A u \in Threads \ {t} :
       (Executing(t) /\ (Executing(u) \/ Previewing(u)))
       => Handed(t) \cap Handed(u) = {}

====
